---- MODULE Spec2Model ----
(***************************************************************************)
(* Model of the circular order-statistics container ShuffleTree            *)
(* (src/helpers/shuffle_tree.rs) and of its caller (src/bin/20.rs).        *)
(*                                                                         *)
(* ShuffleTree wraps outils' WeightedAaTree<usize, T>.  That crate is not  *)
(* part of the repository; it is modelled by its documented contract: an   *)
(* arena of nodes (slot 0 is the nil node, vacated slots are reused), kept *)
(* as a binary search tree that satisfies the AA-tree level rules, every   *)
(* node storing the weight of its subtree.  Which of the admissible AA     *)
(* shapes the tree has after an insertion or a removal is left open.       *)
(*                                                                         *)
(* Keys are usize.  The model scales the width down to KeyBits bits; the    *)
(* const generic INTERLEAVING_BITS of a container is chosen when it is     *)
(* built, so that both the gap between neighbours and the top of the key   *)
(* space can be exhausted within a few calls.                              *)
(***************************************************************************)
EXTENDS Integers, Sequences, FiniteSets, TLC

\* ---------------------------------------------------------------- bounds
KeyBits == 5                \* width of usize in the model (64 on the target)
MaxBits == 3                \* INTERLEAVING_BITS is 1 or MaxBits (48 by default)
MaxN == 3                   \* largest sequence handed to from_iter
MaxBy == 3                  \* largest magnitude of a signed offset
MaxOps == 2                 \* mutating calls made on one container
MaxVal == 1                 \* payloads are drawn from 0..MaxVal
MaxQueryN == 7              \* largest container the pure queries are applied to
MaxPos == 15                \* largest rank handed to a position query

NIL == 0                    \* NodeIndex(0): the nil node of the arena
PANIC == -1                 \* outcome of a call that aborts

RECURSIVE Pow2(_)
Pow2(n) == IF n = 0 THEN 1 ELSE 2 * Pow2(n - 1)

RECURSIVE Pow3(_)
Pow3(n) == IF n = 0 THEN 1 ELSE 3 * Pow3(n - 1)

KeyModulus == Pow2(KeyBits)

\* Rust's % on isize truncates towards zero (the sign follows the dividend).
RemTrunc(a, b) == IF a >= 0 THEN a % b ELSE 0 - ((0 - a) % b)

\* by / by.abs() for by # 0
Signum(by) == IF by > 0 THEN 1 ELSE 0 - 1

\* usize left shift: bits shifted out of the word are lost, in every build.
Shl(x, n) == (x * Pow2(n)) % KeyModulus

\* usize right shift by one
Shr1(x) == x \div 2

\* ------------------------------------------------ WeightedAaTree (outils)
\* A tree value is [root, nodes, order, vacant]; nodes maps each live arena
\* slot to [key, value, parent, left, right, subweight], order lists the live
\* slots by increasing key (the in-order traversal the iterators and
\* successor / predecessor follow), vacant lists the vacated slots, the one
\* vacated last first.

EmptyTree == [root |-> NIL, nodes |-> <<>>, order |-> <<>>, vacant |-> <<>>]

Live(t) == DOMAIN t.nodes

\* Slots of a key/value store in increasing key order.
RECURSIVE SortByKey(_, _)
SortByKey(store, hs) ==
    IF hs = {} THEN <<>>
    ELSE LET m == CHOOSE h \in hs : \A g \in hs : store[h].key <= store[g].key
         IN  <<m>> \o SortByKey(store, hs \ {m})

InOrder(t) == t.order

\* keys(): (NodeIndex, &key) pairs in key order; values(): (NodeIndex, &value)
keys(t) == InOrder(t)
values(t) == InOrder(t)

IndexOf(s, x) == CHOOSE i \in 1..Len(s) : s[i] = x

root(t) == t.root
key(t, n) == t.nodes[n].key
parent(t, n) == t.nodes[n].parent
child(t, n, pos) == IF pos = 0 THEN t.nodes[n].left ELSE t.nodes[n].right
subweight(t, n) == t.nodes[n].subweight

first(t) == IF Live(t) = {} THEN NIL ELSE InOrder(t)[1]
last(t) == IF Live(t) = {} THEN NIL ELSE InOrder(t)[Len(InOrder(t))]

successor(t, n) ==
    LET s == InOrder(t) i == IndexOf(s, n)
    IN  IF i = Len(s) THEN NIL ELSE s[i + 1]

predecessor(t, n) ==
    LET s == InOrder(t) i == IndexOf(s, n)
    IN  IF i = 1 THEN NIL ELSE s[i - 1]

\* The shapes an AA tree over the in-order sequence s can have with a root of
\* level lvl: a left child is one level below its parent, a right child is
\* one level below or (a horizontal link, never two in a row) on the level of
\* its parent, leaves are on level 1.  A tree of level lvl holds between
\* 2^lvl - 1 and 3^lvl - 1 nodes.
SetParent(sub, p) ==
    [h \in DOMAIN sub.links |->
        IF h = sub.root THEN [sub.links[h] EXCEPT !.parent = p] ELSE sub.links[h]]

SubWeight(sub) == IF sub.root = NIL THEN 0 ELSE sub.links[sub.root].subweight

Join(h, l, r) ==
    [root |-> h,
     links |-> (h :> [parent |-> NIL, left |-> l.root, right |-> r.root,
                      subweight |-> 1 + SubWeight(l) + SubWeight(r)])
               @@ SetParent(l, h) @@ SetParent(r, h)]

RECURSIVE AaSubtrees(_, _, _)
AaSubtrees(s, lvl, horizontal) ==
    IF Len(s) = 0 THEN (IF lvl = 0 THEN {[root |-> NIL, links |-> <<>>]} ELSE {})
    ELSE IF lvl = 0 \/ Len(s) < Pow2(lvl) - 1 \/ Len(s) > Pow3(lvl) - 1 THEN {}
    ELSE UNION { LET ls == AaSubtrees(SubSeq(s, 1, i - 1), lvl - 1, TRUE)
                     rest == SubSeq(s, i + 1, Len(s))
                     rs == AaSubtrees(rest, lvl - 1, TRUE)
                           \cup (IF horizontal THEN AaSubtrees(rest, lvl, FALSE) ELSE {})
                 IN  { Join(s[i], l, r) : l \in ls, r \in rs }
               : i \in 1..Len(s) }

AaShapes(s) == UNION { AaSubtrees(s, lvl, TRUE) : lvl \in 0..Len(s) }

\* The trees that hold the given key/value store.
Rebuild(store, vacant) ==
    LET sorted == SortByKey(store, DOMAIN store)
    IN  { [root |-> sh.root,
           nodes |-> [h \in DOMAIN store |->
                        [key |-> store[h].key, value |-> store[h].value,
                         parent |-> sh.links[h].parent, left |-> sh.links[h].left,
                         right |-> sh.links[h].right,
                         subweight |-> sh.links[h].subweight]],
           order |-> sorted, vacant |-> vacant]
          : sh \in AaShapes(sorted) }

StoreOf(t) == [h \in Live(t) |-> [key |-> t.nodes[h].key, value |-> t.nodes[h].value]]

NodeWithKey(t, k) == { h \in Live(t) : t.nodes[h].key = k }

\* The arena slot the next insertion occupies: the slot vacated last if
\* there is one, the slot after the last one otherwise.
NextSlot(t) ==
    IF Len(t.vacant) > 0 THEN Head(t.vacant)
    ELSE Cardinality(Live(t)) + 1

\* insert_weighted(key, value, 1).  A key that is present is not inserted
\* again: the tree keeps its nodes, with the old or with the new value.
InsertStore(t, k, v) == NextSlot(t) :> [key |-> k, value |-> v] @@ StoreOf(t)

insert_weighted(t, k, v) ==
    IF NodeWithKey(t, k) # {}
    THEN {t, [t EXCEPT !.nodes = [h \in Live(t) |->
                 IF h \in NodeWithKey(t, k) THEN [t.nodes[h] EXCEPT !.value = v]
                 ELSE t.nodes[h]]]}
    ELSE Rebuild(InsertStore(t, k, v),
                 IF Len(t.vacant) > 0 THEN Tail(t.vacant) ELSE t.vacant)

\* remove(key): the node leaves the tree and its slot is vacated.
remove(t, k) ==
    LET gone == NodeWithKey(t, k)
    IN  Rebuild([h \in Live(t) \ gone |-> StoreOf(t)[h]],
                SortByKey(StoreOf(t), gone) \o t.vacant)


\* ------------------------------------------------------------------ state
VARIABLES
    INTERLEAVING_BITS,  \* const generic of this ShuffleTree
    loaded,             \* the sequence of values from_iter was given
    tree,               \* the WeightedAaTree the ShuffleTree wraps
    lastOp,             \* the call made last, its arguments and what it returned
    aborted,            \* TRUE once a call has panicked: the program is gone
    ops,                \* number of mutating calls made so far
    mix,                \* bin/20.rs: original_nodes and the number of passes
    marker,             \* bin/06.rs: the StartMarkerIndexIterator
    gaggle,             \* bin/11.rs: the MonkeyGaggle and the round under way
    highest             \* helpers/iter.rs: the fold of k_highest

vars == <<INTERLEAVING_BITS, loaded, tree, lastOp, aborted, ops, mix,
          marker, gaggle, highest>>

\* ------------------------------------------------------------ ShuffleTree
\* from_iter: the enumerated values are inserted under (index + 1) << BITS,
\* one after the other.  The shape a tree had before an insertion does not
\* restrict the shape it has after it, so only the last insertion is made on
\* every shape.
\* Mutation: the index is shifted without the + 1, (key << INTERLEAVING_BITS)
\* | key, so that the gap between neighbours is one too wide.
RECURSIVE FromIterTreesOrsIndex(_, _, _, _)
FromIterTreesOrsIndex(t, input, i, bits) ==
    IF i > Len(input) THEN {t}
    ELSE LET some == CHOOSE t1 \in insert_weighted(t, Shl(i - 1, bits) + (i - 1), input[i]) : TRUE
         IN  IF i = Len(input)
             THEN insert_weighted(t, Shl(i - 1, bits) + (i - 1), input[i])
             ELSE FromIterTreesOrsIndex(some, input, i + 1, bits)

RECURSIVE FromIterTrees(_, _, _, _)
FromIterTrees(t, input, i, bits) ==
    IF i > Len(input) THEN {t}
    ELSE LET some == CHOOSE t1 \in insert_weighted(t, Shl((i - 1) + 1, bits), input[i]) : TRUE
         IN  IF i = Len(input)
             THEN insert_weighted(t, Shl((i - 1) + 1, bits), input[i])
             ELSE FromIterTrees(some, input, i + 1, bits)

from_iter(input, bits) == FromIterTrees(EmptyTree, input, 1, bits)

\* Mutation: the handles are listed in the order of their arena slots, the
\* order in which from_iter inserted the elements.
node_indexes_by_slot(t) == SortByKey([h \in Live(t) |-> [key |-> h]], Live(t))

\* node_indexes(): the handles in the order keys() yields them
node_indexes(t) == keys(t)

\* ordered_values(): the payloads in the order values() yields them
ordered_values(t) == [i \in 1..Len(values(t)) |-> t.nodes[values(t)[i]].value]

\* subweight(root(NodeIndex(0)).unwrap()).unwrap()
total_weight(t) == IF root(t) = NIL THEN PANIC ELSE subweight(t, root(t))

child_distance_to_parent(t, c, pos) ==
    IF child(t, c, pos) # NIL THEN subweight(t, child(t, c, pos)) + 1 ELSE 1

RECURSIVE traverse_by_wrapping(_, _, _)
RECURSIVE traverse_forward_wrapping(_, _, _)
RECURSIVE traverse_backward_wrapping(_, _, _)
RECURSIVE traverse_up_wrapping(_, _, _)

traverse_by_wrapping(t, from, by) ==
    IF root(t) = NIL THEN PANIC
    ELSE LET by_wrapped == RemTrunc(by, subweight(t, root(t)))
         IN  IF by_wrapped > 0 THEN traverse_forward_wrapping(t, from, by_wrapped)
             ELSE IF by_wrapped < 0 THEN traverse_backward_wrapping(t, from, 0 - by_wrapped)
             ELSE from

traverse_forward_wrapping(t, from, by) ==
    LET right_child == child(t, from, 1)
    IN  IF right_child # NIL
        THEN IF subweight(t, right_child) >= by
             THEN LET child_shifts_by == child_distance_to_parent(t, right_child, 0)
                  IN  traverse_by_wrapping(t, right_child, by - child_shifts_by)
             ELSE traverse_up_wrapping(t, from, by)
        ELSE traverse_up_wrapping(t, from, by)

traverse_backward_wrapping(t, from, by) ==
    LET left_child == child(t, from, 0)
    IN  IF left_child # NIL
        THEN IF subweight(t, left_child) >= by
             THEN LET child_shifts_by == child_distance_to_parent(t, left_child, 1)
                  IN  traverse_by_wrapping(t, left_child, 0 - by + child_shifts_by)
             ELSE traverse_up_wrapping(t, from, 0 - by)
        ELSE traverse_up_wrapping(t, from, 0 - by)

\* Mutation: a left child climbs by the weight of its left side.
traverse_up_wrong_side(t, from, by) ==
    IF parent(t, from) # NIL
    THEN LET p == parent(t, from)
         IN  IF child(t, p, 0) = from
             THEN traverse_by_wrapping(t, p, by - child_distance_to_parent(t, from, 0))
             ELSE IF child(t, p, 1) = from
             THEN traverse_by_wrapping(t, p, by + child_distance_to_parent(t, from, 0))
             ELSE PANIC
    ELSE traverse_by_wrapping(t, from, by - subweight(t, from) * Signum(by))

\* Mutation: the second test of the parent looks at its left child again.
traverse_up_checks_left_twice(t, from, by) ==
    IF parent(t, from) # NIL
    THEN LET p == parent(t, from)
         IN  IF child(t, p, 0) = from
             THEN traverse_by_wrapping(t, p, by - child_distance_to_parent(t, from, 1))
             ELSE IF child(t, p, 0) = from
             THEN traverse_by_wrapping(t, p, by + child_distance_to_parent(t, from, 0))
             ELSE PANIC
    ELSE traverse_by_wrapping(t, from, by - subweight(t, from) * Signum(by))

traverse_up_wrapping(t, from, by) ==
    IF parent(t, from) # NIL
    THEN LET p == parent(t, from)
         IN  IF child(t, p, 0) = from
             THEN traverse_by_wrapping(t, p, by - child_distance_to_parent(t, from, 1))
             ELSE IF child(t, p, 1) = from
             THEN traverse_by_wrapping(t, p, by + child_distance_to_parent(t, from, 0))
             ELSE PANIC
    ELSE traverse_by_wrapping(t, from, by - subweight(t, from) * Signum(by))

\* Mutation: the walk starts at the root instead of the first node.
node_at_position_from_root(t, position) ==
    IF root(t) = NIL THEN PANIC
    ELSE LET wrapped_postition == position % subweight(t, root(t))
             first_node == root(t)
         IN  traverse_by_wrapping(t, first_node, wrapped_postition)

node_at_position_wrapping(t, position) ==
    IF root(t) = NIL THEN PANIC
    ELSE LET wrapped_postition == position % subweight(t, root(t))
             first_node == values(t)[1]
         IN  traverse_by_wrapping(t, first_node, wrapped_postition)

\* Mutation: the position equal to the total weight is let through.
node_at_position_off_by_one(t, position) ==
    IF root(t) = NIL THEN PANIC
    ELSE IF position > subweight(t, root(t)) THEN NIL
    ELSE node_at_position_wrapping(t, position)

\* Mutation: a container without a root answers None.
node_at_position_empty_is_none(t, position) ==
    IF root(t) = NIL THEN NIL
    ELSE IF position >= subweight(t, root(t)) THEN NIL
    ELSE node_at_position_wrapping(t, position)

\* Option<NodeIndex>: NIL stands for None
node_at_position(t, position) ==
    IF root(t) = NIL THEN PANIC
    ELSE IF position >= subweight(t, root(t)) THEN NIL
    ELSE node_at_position_wrapping(t, position)

\* An outcome of a mutating call: the container it leaves behind, how the call
\* ended ("done", or the reason of the abort) and what it computed on the way
\* (dup: the key handed to insert_weighted was present already).
Outcome(t, result, wrapped, dup, succ, dest, pred, new_key) ==
    [tree |-> t, result |-> result, wrapped |-> wrapped, dup |-> dup,
     succ |-> succ, dest |-> dest, pred |-> pred, new_key |-> new_key]

Failed(t, result, succ, dest, pred) ==
    Outcome(t, result, FALSE, FALSE, succ, dest, pred, 0)

\* Mutation: the node is inserted with weight 2, so that it counts twice in
\* its own subtree weight and in that of every node above it.
InsertedWithWeightTwo(t, k, v, wrapped, succ, dest, pred) ==
    LET RECURSIVE PathToRoot(_, _)
        PathToRoot(t1, h) == IF h = NIL THEN {} ELSE {h} \cup PathToRoot(t1, parent(t1, h))
        Heavier(t1) ==
            IF NodeWithKey(t, k) # {} THEN t1
            ELSE [t1 EXCEPT !.nodes = [h \in Live(t1) |->
                     IF h \in UNION { PathToRoot(t1, x) : x \in NodeWithKey(t1, k) }
                     THEN [t1.nodes[h] EXCEPT !.subweight = @ + 1]
                     ELSE t1.nodes[h]]]
    IN  { Outcome(Heavier(t1), "done", wrapped, NodeWithKey(t, k) # {}, succ, dest, pred, k)
          : t1 \in insert_weighted(t, k, v) }

Inserted(t, k, v, wrapped, succ, dest, pred) ==
    { Outcome(t1, "done", wrapped, NodeWithKey(t, k) # {}, succ, dest, pred, k)
      : t1 \in insert_weighted(t, k, v) }

\* current_max_key + (1 << INTERLEAVING_BITS) on usize: a sum that does not
\* fit aborts the call in a build with overflow checks and wraps in a build
\* without them.
AddGap(k) ==
    IF k + Pow2(INTERLEAVING_BITS) < KeyModulus
    THEN {[key |-> k + Pow2(INTERLEAVING_BITS), wrapped |-> FALSE]}
    ELSE {[key |-> PANIC, wrapped |-> FALSE],
          [key |-> (k + Pow2(INTERLEAVING_BITS)) % KeyModulus, wrapped |-> TRUE]}

append(t, value) ==
    IF root(t) = NIL THEN {Failed(t, "unwrap", NIL, NIL, NIL)}
    ELSE LET last_node == last(t)
             current_max_key == key(t, last_node)
         IN  UNION { IF new_max_key.key = PANIC
                     THEN {Failed(t, "overflow", NIL, NIL, NIL)}
                     ELSE Inserted(t, new_max_key.key, value, new_max_key.wrapped,
                                   NIL, NIL, NIL)
                   : new_max_key \in AddGap(current_max_key) }

\* Mutation: the smallest key is not compared with 0.
prepend_unchecked(t, value) ==
    IF root(t) = NIL THEN {Failed(t, "unwrap", NIL, NIL, NIL)}
    ELSE LET first_node == first(t)
             current_min_key == key(t, first_node)
             new_min_key == Shr1(current_min_key)
         IN  Inserted(t, new_min_key, value, FALSE, NIL, NIL, NIL)

\* Mutation: the new first key is one full gap below the smallest key.
prepend_subtracts_gap(t, value) ==
    IF root(t) = NIL THEN {Failed(t, "unwrap", NIL, NIL, NIL)}
    ELSE LET first_node == first(t)
             current_min_key == key(t, first_node)
         IN  IF current_min_key = 0
             THEN {Failed(t, "reindex", NIL, NIL, NIL)}
             ELSE LET new_min_key ==
                          (current_min_key - Pow2(INTERLEAVING_BITS)) % KeyModulus
                  IN  Inserted(t, new_min_key, value, FALSE, NIL, NIL, NIL)

prepend(t, value) ==
    IF root(t) = NIL THEN {Failed(t, "unwrap", NIL, NIL, NIL)}
    ELSE LET first_node == first(t)
             current_min_key == key(t, first_node)
         IN  IF current_min_key = 0
             THEN {Failed(t, "reindex", NIL, NIL, NIL)}
             ELSE LET new_min_key == Shr1(current_min_key)
                  IN  Inserted(t, new_min_key, value, FALSE, NIL, NIL, NIL)

\* Mutation: the shift is applied to the sum, a + (b - a) >> 1 read as
\* (a + (b - a)) >> 1.
MidKeyShiftsSum(destination_key_predecessor, destination_key) ==
    Shr1(destination_key_predecessor + (destination_key - destination_key_predecessor))

\* The key move_by_wrapping gives to an element put between two neighbours.
MidKey(destination_key_predecessor, destination_key) ==
    destination_key_predecessor + Shr1(destination_key - destination_key_predecessor)

\* Mutation: the element is put behind the node reached, not in front of it.
MoveAfterRemoveInsertsBehind(t1, succ, current_value, by) ==
    LET reached == traverse_by_wrapping(t1, succ, by)
    IN  IF reached = PANIC
        THEN {Failed(t1, "unwrap", succ, NIL, NIL)}
        ELSE LET destination_node_index == successor(t1, reached)
             IN  IF destination_node_index = NIL
                 THEN { [o EXCEPT !.succ = succ, !.dest = reached]
                        : o \in append(t1, current_value) }
                 ELSE IF key(t1, destination_node_index) = key(t1, reached) + 1
                      THEN {Failed(t1, "reindex", succ, destination_node_index, reached)}
                      ELSE Inserted(t1, MidKey(key(t1, reached),
                                               key(t1, destination_node_index)),
                                    current_value, FALSE, succ,
                                    destination_node_index, reached)

\* Mutation: the check for a used-up gap is left out.
MoveAfterRemoveNeverReindexes(t1, succ, current_value, by) ==
    LET destination_node_index == traverse_by_wrapping(t1, succ, by)
    IN  IF destination_node_index = PANIC
        THEN {Failed(t1, "unwrap", succ, NIL, NIL)}
        ELSE LET destination_key == key(t1, destination_node_index)
                 maybe_predecessor == predecessor(t1, destination_node_index)
             IN  IF maybe_predecessor = NIL
                 THEN { [o EXCEPT !.succ = succ, !.dest = destination_node_index]
                        : o \in append(t1, current_value) }
                 ELSE LET destination_key_predecessor == key(t1, maybe_predecessor)
                      IN  Inserted(t1, MidKey(destination_key_predecessor,
                                              destination_key),
                                   current_value, FALSE, succ,
                                   destination_node_index, maybe_predecessor)

\* The part of move_by_wrapping that follows the removal of the node.
MoveAfterRemove(t1, succ, current_value, by) ==
    LET destination_node_index == traverse_by_wrapping(t1, succ, by)
    IN  IF destination_node_index = PANIC
        THEN {Failed(t1, "unwrap", succ, NIL, NIL)}
        ELSE LET destination_key == key(t1, destination_node_index)
                 maybe_predecessor == predecessor(t1, destination_node_index)
             IN  IF maybe_predecessor = NIL
                 THEN { [o EXCEPT !.succ = succ, !.dest = destination_node_index]
                        : o \in append(t1, current_value) }
                 ELSE LET destination_key_predecessor == key(t1, maybe_predecessor)
                      IN  IF destination_key = destination_key_predecessor + 1
                          THEN {Failed(t1, "reindex", succ, destination_node_index,
                                       maybe_predecessor)}
                          ELSE Inserted(t1, MidKey(destination_key_predecessor,
                                                   destination_key),
                                        current_value, FALSE, succ,
                                        destination_node_index, maybe_predecessor)

\* Mutation: the walk starts at the neighbour in front of the node.
move_by_wrapping_from_predecessor(t, node, by) ==
    IF node \notin Live(t) THEN {Failed(t, "expect", NIL, NIL, NIL)}
    ELSE LET current_key == key(t, node)
             current_node_wrapped_successor ==
                 IF predecessor(t, node) # NIL THEN predecessor(t, node) ELSE last(t)
             current_value == t.nodes[node].value
         IN  UNION { MoveAfterRemove(t1, current_node_wrapped_successor, current_value, by)
                     : t1 \in remove(t, current_key) }

\* Mutation: the successor of the last element is taken to be the last of
\* the others, not the first.
move_by_wrapping_wraps_to_last(t, node, by) ==
    IF node \notin Live(t) THEN {Failed(t, "expect", NIL, NIL, NIL)}
    ELSE LET current_key == key(t, node)
             current_node_wrapped_successor ==
                 IF successor(t, node) # NIL THEN successor(t, node)
                 ELSE predecessor(t, node)
             current_value == t.nodes[node].value
         IN  UNION { MoveAfterRemove(t1, current_node_wrapped_successor, current_value, by)
                     : t1 \in remove(t, current_key) }

\* Mutation: the walk goes the other way round.
move_by_wrapping_reversed(t, node, by) ==
    IF node \notin Live(t) THEN {Failed(t, "expect", NIL, NIL, NIL)}
    ELSE LET current_key == key(t, node)
             current_node_wrapped_successor ==
                 IF successor(t, node) # NIL THEN successor(t, node) ELSE first(t)
             current_value == t.nodes[node].value
         IN  UNION { MoveAfterRemove(t1, current_node_wrapped_successor, current_value,
                                     0 - by)
                     : t1 \in remove(t, current_key) }

\* Mutation: the payload is taken out of the node and the default value of
\* T is what is put back.
move_by_wrapping_inserts_default(t, node, by) ==
    IF node \notin Live(t) THEN {Failed(t, "expect", NIL, NIL, NIL)}
    ELSE LET current_key == key(t, node)
             current_node_wrapped_successor ==
                 IF successor(t, node) # NIL THEN successor(t, node) ELSE first(t)
             current_value == 0
         IN  UNION { MoveAfterRemove(t1, current_node_wrapped_successor, current_value, by)
                     : t1 \in remove(t, current_key) }

\* Mutation: the offset is reduced by the weight the tree has before the
\* node is removed.
move_by_wrapping_reduces_before_removal(t, node, by) ==
    IF node \notin Live(t) THEN {Failed(t, "expect", NIL, NIL, NIL)}
    ELSE LET current_key == key(t, node)
             current_node_wrapped_successor ==
                 IF successor(t, node) # NIL THEN successor(t, node) ELSE first(t)
             current_value == t.nodes[node].value
         IN  UNION { MoveAfterRemove(t1, current_node_wrapped_successor, current_value,
                                     RemTrunc(by, subweight(t, root(t))))
                     : t1 \in remove(t, current_key) }

\* Mutation: a move that fails hands back the container it was given.
move_by_wrapping_restores_on_failure(t, node, by) ==
    IF node \notin Live(t) THEN {Failed(t, "expect", NIL, NIL, NIL)}
    ELSE LET current_key == key(t, node)
             current_node_wrapped_successor ==
                 IF successor(t, node) # NIL THEN successor(t, node) ELSE first(t)
             current_value == t.nodes[node].value
         IN  { IF o.result = "done" THEN o ELSE [o EXCEPT !.tree = t]
               : o \in UNION { MoveAfterRemove(t1, current_node_wrapped_successor,
                                               current_value, by)
                               : t1 \in remove(t, current_key) } }

\* Mutation: the only element of a container is left where it is.
move_by_wrapping_keeps_single(t, node, by) ==
    IF node \notin Live(t) THEN {Failed(t, "expect", NIL, NIL, NIL)}
    ELSE IF Cardinality(Live(t)) = 1
    THEN {Outcome(t, "done", FALSE, FALSE, node, node, NIL, key(t, node))}
    ELSE LET current_key == key(t, node)
             current_node_wrapped_successor ==
                 IF successor(t, node) # NIL THEN successor(t, node) ELSE first(t)
             current_value == t.nodes[node].value
         IN  UNION { MoveAfterRemove(t1, current_node_wrapped_successor, current_value, by)
                     : t1 \in remove(t, current_key) }

move_by_wrapping(t, node, by) ==
    IF node \notin Live(t) THEN {Failed(t, "expect", NIL, NIL, NIL)}
    ELSE LET current_key == key(t, node)
             current_node_wrapped_successor ==
                 IF successor(t, node) # NIL THEN successor(t, node) ELSE first(t)
             current_value == t.nodes[node].value
         IN  UNION { MoveAfterRemove(t1, current_node_wrapped_successor, current_value, by)
                     : t1 \in remove(t, current_key) }

\* ---------------------------------------------------------------- actions
Offsets == (0 - MaxBy)..MaxBy
Values == 0..MaxVal
Handles == 1..(MaxN + MaxOps)

\* The offsets of the unit tests of shuffle_tree.rs
TestOffsets == {0, 1, 0 - 1, 0 - 6, 16, 0 - 8, 0 - 7}

NoOp == [op |-> "from_iter", node |-> NIL, by |-> 0, result |-> "done",
         wrapped |-> FALSE, dup |-> FALSE, before |-> EmptyTree, succ |-> NIL,
         dest |-> NIL, pred |-> NIL, new_key |-> 0, ret |-> NIL,
         moves_only |-> TRUE, undo |-> FALSE]

\* No mixing is under way: the container is used on its own.
NoMix == [original_nodes |-> <<>>, passes |-> 0, decryption_key |-> 1]

\* The programs of bin/06.rs and bin/11.rs and the fold of helpers/iter.rs
\* have nothing under way.
NoMarker == [MARKER_SIZE |-> 0, input |-> <<>>, ringbuffer |-> <<>>, index |-> 0,
             result |-> "idle", ret |-> 0]

NoGaggle == [monkeys |-> <<>>, lcm |-> 0, worry_reduction_factor |-> 0,
             turn |-> 0, items_before |-> 0, rounds |-> 0, inspected |-> 0,
             result |-> "idle"]

NoHighest == [K |-> 0, items |-> <<>>, taken |-> 0, acc |-> <<>>]

Elsewhere == marker = NoMarker /\ gaggle = NoGaggle /\ highest = NoHighest

\* The sequence from_iter is given: the values 0, 1, 2, .. of the unit tests,
\* starting over after MaxVal + 1, so that a longer sequence repeats values.
InputsOf(n) == {[i \in 1..n |-> (i - 1) % (MaxVal + 2)]}

\* A container holds its const generic; the sequence is short enough for
\* (index + 1) << INTERLEAVING_BITS to keep every bit.
Built(sizes) ==
    /\ INTERLEAVING_BITS \in {1, MaxBits}
    /\ \E n \in sizes :
          /\ n * Pow2(INTERLEAVING_BITS) < KeyModulus
          /\ loaded \in InputsOf(n)
          /\ tree \in from_iter(loaded, INTERLEAVING_BITS)
    /\ lastOp = NoOp
    /\ aborted = FALSE
    /\ ops = 0
    /\ mix = NoMix
    /\ Elsewhere

Init == Built(0..MaxN)

Mutation(name, node, by, o) ==
    /\ tree' = o.tree
    /\ lastOp' = [op |-> name, node |-> node, by |-> by, result |-> o.result,
                  wrapped |-> o.wrapped, dup |-> o.dup, before |-> tree,
                  succ |-> o.succ, dest |-> o.dest, pred |-> o.pred,
                  new_key |-> o.new_key, ret |-> NIL,
                  moves_only |-> lastOp.moves_only /\ name = "move_by_wrapping",
                  undo |-> /\ name = "move_by_wrapping"
                           /\ lastOp.op = "move_by_wrapping" /\ lastOp.result = "done"
                           /\ lastOp.node = node /\ lastOp.by = 0 - by]
    /\ aborted' = (o.result # "done")
    /\ ops' = ops + 1
    /\ UNCHANGED <<INTERLEAVING_BITS, loaded, mix, marker, gaggle, highest>>

Move(node, by) ==
    /\ ~aborted /\ ops < MaxOps
    /\ node \in Live(tree)
    /\ \E o \in move_by_wrapping(tree, node, by) : Mutation("move_by_wrapping", node, by, o)

AppendValue(v) ==
    /\ ~aborted /\ ops < MaxOps
    /\ \E o \in append(tree, v) : Mutation("append", NIL, v, o)

PrependValue(v) ==
    /\ ~aborted /\ ops < MaxOps
    /\ \E o \in prepend(tree, v) : Mutation("prepend", NIL, v, o)

Query(name, node, by, ret) ==
    /\ lastOp' = [NoOp EXCEPT !.op = name, !.node = node, !.by = by, !.ret = ret,
                              !.result = IF ret = PANIC THEN "unwrap" ELSE "done"]
    /\ aborted' = (ret = PANIC)
    /\ UNCHANGED <<INTERLEAVING_BITS, loaded, tree, ops, mix, marker, gaggle, highest>>

Traverse(node, by) ==
    /\ ~aborted
    /\ node \in Live(tree)
    /\ Query("traverse_by_wrapping", node, by, traverse_by_wrapping(tree, node, by))

NodeAtPosition(position) ==
    /\ ~aborted
    /\ Query("node_at_position", NIL, position, node_at_position(tree, position))

NodeAtPositionWrapping(position) ==
    /\ ~aborted
    /\ Query("node_at_position_wrapping", NIL, position,
             node_at_position_wrapping(tree, position))

\* Any sequence of mutating calls on a container.
Next ==
    \/ \E node \in Handles, by \in Offsets : Move(node, by)
    \/ \E v \in Values : AppendValue(v)
    \/ \E v \in Values : PrependValue(v)

Spec == Init /\ [][Next]_vars

\* The pure queries, applied to containers as from_iter builds them.
InitQuery == Built(0..MaxQueryN)

NextQuery ==
    \/ \E node \in 1..MaxQueryN, by \in (0 - 2 * MaxQueryN)..(2 * MaxQueryN) : Traverse(node, by)
    \/ \E position \in 0..MaxPos : NodeAtPosition(position)
    \/ \E position \in 0..MaxPos : NodeAtPositionWrapping(position)

SpecQuery == InitQuery /\ [][NextQuery]_vars

\* The container of the unit tests, (0..10).enumerate().collect(), and the
\* moves the tests make on it: one move on a fresh container.
InitTen ==
    /\ INTERLEAVING_BITS = 1
    /\ loaded = [i \in 1..10 |-> i - 1]
    /\ tree \in from_iter(loaded, INTERLEAVING_BITS)
    /\ lastOp = NoOp
    /\ aborted = FALSE
    /\ ops = 0
    /\ mix = NoMix
    /\ Elsewhere

TestMove(node, by) == ops = 0 /\ Move(node, by)

NextTen == \E node \in 1..10, by \in TestOffsets : TestMove(node, by)

SpecTen == InitTen /\ [][NextTen]_vars

\* bin/20.rs: part_one mixes once with the numbers as they are, part_two ten
\* times with the numbers multiplied by the decryption key.
PartOnePasses == 1
PartTwoPasses == 10
DecryptionKey == 811589153

\* The numbers of the puzzle input
MixValues == (0 - MaxVal)..MaxVal

\* parse_to_initial_tree (ShuffleTree<isize>, INTERLEAVING_BITS as the
\* container is declared) followed by
\* original_nodes = shuffle_tree.node_indexes().collect()
InitMix ==
    /\ INTERLEAVING_BITS \in {1, MaxBits}
    /\ \E n \in 1..MaxN, part \in {[passes |-> PartOnePasses, decryption_key |-> 1],
                                    [passes |-> PartTwoPasses,
                                     decryption_key |-> DecryptionKey]} :
          /\ n * Pow2(INTERLEAVING_BITS) < KeyModulus
          /\ \E input \in [1..n -> MixValues] :
                loaded = [i \in 1..n |-> input[i] * part.decryption_key]
          /\ tree \in from_iter(loaded, INTERLEAVING_BITS)
          /\ mix = [original_nodes |-> node_indexes(tree), passes |-> part.passes,
                    decryption_key |-> part.decryption_key]
    /\ lastOp = NoOp
    /\ aborted = FALSE
    /\ ops = 0
    /\ Elsewhere

\* One turn of the inner loop: for node in original_nodes, in the pass
\* ops \div n; node_value = shuffle_tree[node] panics for a handle that
\* designates no node.
MixStep ==
    /\ ~aborted
    /\ ops < mix.passes * Len(mix.original_nodes)
    /\ LET node == mix.original_nodes[(ops % Len(mix.original_nodes)) + 1]
           node_value == IF node \in Live(tree) THEN tree.nodes[node].value ELSE 0
       IN  \E o \in move_by_wrapping(tree, node, node_value) :
               Mutation("move_by_wrapping", node, node_value, o)

NextMix == MixStep

SpecMix == InitMix /\ [][NextMix]_vars


\* The calls of one traversal, one at a time: lastOp holds the function that
\* is called next and its arguments (result "call") until the traversal
\* returns (result "done", ret the node) or panics; wrapped tells that the
\* walk has gone around at the root, ops counts the calls, up to MaxCalls.
MaxCalls == 20

Call(name, from, by) ==
    [lastOp EXCEPT !.op = name, !.node = from, !.by = by, !.result = "call"]

Return(node) == [lastOp EXCEPT !.result = "done", !.ret = node]

Calling(name) == ~aborted /\ lastOp.result = "call" /\ lastOp.op = name

Called(next) ==
    /\ lastOp' = next
    /\ ops' = IF ops < MaxCalls THEN ops + 1 ELSE ops
    /\ aborted' = (next.result = "unwrap")
    /\ UNCHANGED <<INTERLEAVING_BITS, loaded, tree, mix, marker, gaggle, highest>>

InitWalk ==
    /\ INTERLEAVING_BITS = 1
    /\ \E n \in 1..MaxQueryN :
          /\ loaded \in InputsOf(n)
          /\ tree \in from_iter(loaded, INTERLEAVING_BITS)
    /\ \E from \in Live(tree), by \in (0 - 2 * MaxQueryN)..(2 * MaxQueryN) :
          lastOp = [NoOp EXCEPT !.op = "traverse_by_wrapping", !.node = from,
                                !.by = by, !.result = "call"]
    /\ aborted = FALSE
    /\ ops = 0
    /\ mix = NoMix
    /\ Elsewhere

WalkBy ==
    /\ Calling("traverse_by_wrapping")
    /\ LET from == lastOp.node
           by_wrapped == RemTrunc(lastOp.by, subweight(tree, root(tree)))
       IN  Called(IF by_wrapped > 0
                  THEN Call("traverse_forward_wrapping", from, by_wrapped)
                  ELSE IF by_wrapped < 0
                  THEN Call("traverse_backward_wrapping", from, 0 - by_wrapped)
                  ELSE Return(from))

WalkForward ==
    /\ Calling("traverse_forward_wrapping")
    /\ LET from == lastOp.node
           by == lastOp.by
           right_child == child(tree, from, 1)
       IN  Called(IF right_child # NIL /\ subweight(tree, right_child) >= by
                  THEN Call("traverse_by_wrapping", right_child,
                            by - child_distance_to_parent(tree, right_child, 0))
                  ELSE Call("traverse_up_wrapping", from, by))

WalkBackward ==
    /\ Calling("traverse_backward_wrapping")
    /\ LET from == lastOp.node
           by == lastOp.by
           left_child == child(tree, from, 0)
       IN  Called(IF left_child # NIL /\ subweight(tree, left_child) >= by
                  THEN Call("traverse_by_wrapping", left_child,
                            0 - by + child_distance_to_parent(tree, left_child, 1))
                  ELSE Call("traverse_up_wrapping", from, 0 - by))

\* Mutation: at the root the offset is passed on as it is.
WalkUpKeepsOffsetAtRoot ==
    /\ Calling("traverse_up_wrapping")
    /\ LET from == lastOp.node
           by == lastOp.by
           p == parent(tree, from)
       IN  Called(IF p # NIL
                  THEN IF child(tree, p, 0) = from
                       THEN Call("traverse_by_wrapping", p,
                                 by - child_distance_to_parent(tree, from, 1))
                       ELSE IF child(tree, p, 1) = from
                       THEN Call("traverse_by_wrapping", p,
                                 by + child_distance_to_parent(tree, from, 0))
                       ELSE [lastOp EXCEPT !.result = "unwrap", !.ret = PANIC]
                  ELSE [Call("traverse_by_wrapping", from, by) EXCEPT !.wrapped = TRUE])

WalkUp ==
    /\ Calling("traverse_up_wrapping")
    /\ LET from == lastOp.node
           by == lastOp.by
           p == parent(tree, from)
       IN  Called(IF p # NIL
                  THEN IF child(tree, p, 0) = from
                       THEN Call("traverse_by_wrapping", p,
                                 by - child_distance_to_parent(tree, from, 1))
                       ELSE IF child(tree, p, 1) = from
                       THEN Call("traverse_by_wrapping", p,
                                 by + child_distance_to_parent(tree, from, 0))
                       ELSE [lastOp EXCEPT !.result = "unwrap", !.ret = PANIC]
                  ELSE [Call("traverse_by_wrapping", from,
                             by - subweight(tree, from) * Signum(by))
                        EXCEPT !.wrapped = TRUE])

NextWalk == WalkBy \/ WalkForward \/ WalkBackward \/ WalkUp

\* A call that is made returns or calls on: the program does not stop
\* between two calls.
SpecWalk == InitWalk /\ [][NextWalk]_vars /\ WF_vars(NextWalk)

\* ------------------------------------------------------------- bin/06.rs
MaxMarker == 3              \* MARKER_SIZE is 1..MaxMarker (4 and 14 in the program)
MaxInput == 5               \* longest input handed to iterate
MaxByte == 3                \* the bytes of the input are 0..MaxByte

\* The ShuffleTree is not in use.
NoContainer ==
    /\ INTERLEAVING_BITS = 1
    /\ loaded = <<>>
    /\ tree = EmptyTree
    /\ lastOp = NoOp
    /\ ops = 0
    /\ mix = NoMix

\* Option<usize> as a set: None is {}, Some(i) is {i}.
Max(S) == CHOOSE x \in S : \A y \in S : y <= x

\* slice::rotate_left(k) and VecDeque::rotate_left(k)
rotate_left(s, k) == SubSeq(s, k + 1, Len(s)) \o SubSeq(s, 1, k)

\* VecDeque::resize(n, _) to a length that is not larger
resize(s, n) == SubSeq(s, 1, n)

\* iterate: the assertion lets only inputs of MARKER_SIZE bytes or more
\* through; the ring buffer starts empty and index starts at 0.
iterate(MARKER_SIZE, input) ==
    [MARKER_SIZE |-> MARKER_SIZE, input |-> input, ringbuffer |-> <<>>, index |-> 0,
     result |-> "next", ret |-> 0]

\* advance_by: the two assertions, the removal from the front of the ring,
\* then by times { index += 1; push_back(input[index]) }; input[i] of the
\* program is input[i + 1] here.
advance_by(m, by) ==
    IF ~(by <= m.MARKER_SIZE) \/ ~(m.index + by < Len(m.input))
    THEN [m EXCEPT !.result = "assert"]
    ELSE LET len == Len(m.ringbuffer)
             removal_amount == IF len + by > m.MARKER_SIZE
                               THEN len + by - m.MARKER_SIZE ELSE 0
             rotated == rotate_left(m.ringbuffer, removal_amount)
             kept == resize(rotated, len - removal_amount)
         IN  [m EXCEPT !.ringbuffer = kept \o [i \in 1..by |-> m.input[m.index + i + 1]],
                       !.index = m.index + by]

\* find_last_duplicate_char: going from the back of the ring, the first
\* index whose byte has been met already; ringbuffer[i] of the program is
\* ringbuffer[i + 1] here.
find_last_duplicate_char(m) ==
    LET len == Len(m.ringbuffer)
        met == { i \in 0..(len - 1) :
                    \E j \in (i + 1)..(len - 1) : m.ringbuffer[j + 1] = m.ringbuffer[i + 1] }
    IN  IF len < 2 \/ met = {} THEN {} ELSE {Max(met)}

InitMarker ==
    /\ NoContainer
    /\ aborted = FALSE
    /\ \E MARKER_SIZE \in 1..MaxMarker, n \in 1..MaxInput :
          /\ n >= MARKER_SIZE
          /\ \E input \in [1..n -> 0..MaxByte] : marker = iterate(MARKER_SIZE, input)
    /\ gaggle = NoGaggle
    /\ highest = NoHighest

\* next is inside its loop: while self.index < self.input.len()
InNext == marker.result = "next" /\ marker.index < Len(marker.input)

Advanced(m) ==
    /\ marker' = m
    /\ aborted' = (m.result = "assert")
    /\ UNCHANGED <<INTERLEAVING_BITS, loaded, tree, lastOp, ops, mix, gaggle, highest>>

\* One turn of the loop of next, first branch: advance past the duplicate.
NextPastDuplicate ==
    /\ InNext
    /\ \E last_duplicate_index \in find_last_duplicate_char(marker) :
          Advanced(advance_by(marker, last_duplicate_index + 1))

\* Second branch: the ring is full and holds no byte twice.
NextReturnsMarker ==
    /\ InNext
    /\ find_last_duplicate_char(marker) = {}
    /\ Len(marker.ringbuffer) = marker.MARKER_SIZE
    /\ Advanced([marker EXCEPT !.result = "Some", !.ret = marker.index + 1])

\* Third branch: the ring is not full yet.
NextAdvancesByOne ==
    /\ InNext
    /\ find_last_duplicate_char(marker) = {}
    /\ Len(marker.ringbuffer) # marker.MARKER_SIZE
    /\ Advanced(advance_by(marker, 1))

NextMarker == NextPastDuplicate \/ NextReturnsMarker \/ NextAdvancesByOne

SpecMarker == InitMarker /\ [][NextMarker]_vars

\* ------------------------------------------------------------- bin/11.rs
MaxMonkeys == 2             \* a gaggle has 1..MaxMonkeys monkeys
MaxWorry == 1               \* starting items are 0..MaxWorry, divisors 1..MaxWorry + 1
MaxRounds == 2              \* rounds simulated (20 and 10000 in the program)

\* worry_reduction_factor of part_one and of part_two
PartOneReduction == 3
PartTwoReduction == 1

\* Value::Old and Value::Primitive(val)
Old == [old |-> TRUE, val |-> 0]
Primitive(val) == [old |-> FALSE, val |-> val]

\* Value::resolve
resolve(v, old_value) == IF v.old THEN old_value ELSE v.val

\* Operation::evaluate
evaluate(operation, old_value) ==
    IF operation.kind = "Plus"
    THEN resolve(operation.v1, old_value) + resolve(operation.v2, old_value)
    ELSE resolve(operation.v1, old_value) * resolve(operation.v2, old_value)

\* num::integer::lcm and the gcd it is computed from
RECURSIVE Gcd(_, _)
Gcd(a, b) == IF b = 0 THEN a ELSE Gcd(b, a % b)

Lcm(a, b) == IF a = 0 \/ b = 0 THEN 0 ELSE (a \div Gcd(a, b)) * b

\* self.monkeys.iter().map(|m| m.borrow().items.len()).sum() over the
\* first n monkeys: items_before / items_after of simulate_round
RECURSIVE ItemCount(_, _)
ItemCount(monkeys, n) ==
    IF n = 0 THEN 0 ELSE ItemCount(monkeys, n - 1) + Len(monkeys[n].items)

TotalItems(monkeys) == ItemCount(monkeys, Len(monkeys))

\* The inspection_count of the first n monkeys, added up
RECURSIVE InspectionCount(_, _)
InspectionCount(monkeys, n) ==
    IF n = 0 THEN 0 ELSE InspectionCount(monkeys, n - 1) + monkeys[n].inspection_count

\* .map(|m| m.borrow().test_divisibility as u32).reduce(integer::lcm)
RECURSIVE LcmOver(_, _)
LcmOver(monkeys, n) ==
    IF n = 1 THEN monkeys[1].test_divisibility
    ELSE Lcm(LcmOver(monkeys, n - 1), monkeys[n].test_divisibility)

\* Monkey::parse_from_line: separated_list1 gives a monkey one item or more
\* (here one), inspection_count starts at 0; MonkeyGaggle::new takes the
\* least common multiple of the divisors. Monkey i of the program is
\* monkeys[i + 1] here; if_true and if_false keep the program's numbering.
Operations == {[kind |-> "Plus", v1 |-> Old, v2 |-> Primitive(1)],
               [kind |-> "Times", v1 |-> Old, v2 |-> Old]}

MonkeyGaggle_new(monkeys, worry_reduction_factor) ==
    [monkeys |-> monkeys, lcm |-> LcmOver(monkeys, Len(monkeys)),
     worry_reduction_factor |-> worry_reduction_factor,
     turn |-> 0, items_before |-> 0, rounds |-> 0, inspected |-> 0,
     result |-> "ready"]

InitGaggle ==
    /\ NoContainer
    /\ aborted = FALSE
    /\ marker = NoMarker
    /\ highest = NoHighest
    /\ \E n \in 1..MaxMonkeys, operation \in Operations,
          test_divisibility \in 1..(MaxWorry + 1),
          worry_reduction_factor \in {PartOneReduction, PartTwoReduction} :
          \E starting_items \in [1..n -> 0..MaxWorry],
             if_true \in [1..n -> 0..(n - 1)], if_false \in [1..n -> 0..(n - 1)] :
             gaggle = MonkeyGaggle_new([i \in 1..n |->
                              [items |-> <<starting_items[i]>>,
                               operation |-> operation,
                               test_divisibility |-> test_divisibility,
                               if_true |-> if_true[i], if_false |-> if_false[i],
                               inspection_count |-> 0]],
                          worry_reduction_factor)

\* The loop of take_turn from its k-th item on: me stays mutably borrowed
\* through the loop, so borrow_mut() on the thrower's own cell panics
\* (BorrowMutError); inspected counts the items the loop has evaluated.
RECURSIVE Toss(_, _, _, _, _)
Toss(g, monkey_id, items, k, inspected) ==
    IF k > Len(items)
    THEN [monkeys |-> g.monkeys, inspected |-> inspected, result |-> "done"]
    ELSE LET me == g.monkeys[monkey_id + 1]
             new_item_value == (evaluate(me.operation, items[k])
                                   \div g.worry_reduction_factor) % g.lcm
             toss_to == IF new_item_value % me.test_divisibility = 0
                        THEN me.if_true ELSE me.if_false
         IN  IF toss_to = monkey_id
             THEN [monkeys |-> g.monkeys, inspected |-> inspected + 1,
                   result |-> "borrow"]
             ELSE Toss([g EXCEPT !.monkeys[toss_to + 1].items =
                                      Append(@, new_item_value)],
                       monkey_id, items, k + 1, inspected + 1)

\* take_turn: the count is raised by the number of items held, the items are
\* swapped out for an empty list, then each is thrown.
take_turn(g, monkey_id) ==
    LET items == g.monkeys[monkey_id + 1].items
        taken == [g EXCEPT !.monkeys[monkey_id + 1].inspection_count = @ + Len(items),
                           !.monkeys[monkey_id + 1].items = <<>>]
    IN  Toss(taken, monkey_id, items, 1, 0)

GaggleStep(g) ==
    /\ gaggle' = g
    /\ aborted' = (g.result \in {"borrow", "assert_eq"})
    /\ UNCHANGED <<INTERLEAVING_BITS, loaded, tree, lastOp, ops, mix, marker, highest>>

\* simulate_round up to its loop: items_before is taken.
SimulateRound ==
    /\ gaggle.result = "ready"
    /\ gaggle.rounds < MaxRounds
    /\ GaggleStep([gaggle EXCEPT !.items_before = TotalItems(gaggle.monkeys),
                                 !.turn = 0, !.result = "round"])

\* for i in 0..self.monkeys.len() { self.take_turn(i, ..) }
TakeTurn ==
    /\ gaggle.result = "round"
    /\ gaggle.turn < Len(gaggle.monkeys)
    /\ LET t == take_turn(gaggle, gaggle.turn)
       IN  GaggleStep([gaggle EXCEPT !.monkeys = t.monkeys,
                                     !.inspected = @ + t.inspected,
                                     !.turn = @ + 1,
                                     !.result = IF t.result = "done" THEN "round"
                                                ELSE t.result])

\* items_after is taken and compared: assert_eq!(items_before, items_after)
EndRound ==
    /\ gaggle.result = "round"
    /\ gaggle.turn = Len(gaggle.monkeys)
    /\ LET items_after == TotalItems(gaggle.monkeys)
       IN  GaggleStep([gaggle EXCEPT !.rounds = @ + 1,
                                     !.result = IF gaggle.items_before = items_after
                                                THEN "ready" ELSE "assert_eq"])

NextGaggle == SimulateRound \/ TakeTurn \/ EndRound

SpecGaggle == InitGaggle /\ [][NextGaggle]_vars

\* ------------------------------------------------------- helpers/iter.rs
MaxK == 2                   \* K of k_highest::<K> is 1..MaxK (2 in bin/11.rs)
MaxItems == 3               \* longest sequence handed to k_highest
MaxItem == 2                \* the items are -1..MaxItem

\* Default::default() of the integer item types
Default == 0

\* slice::binary_search on an ascending slice: Ok(index) for any index that
\* holds the item (which one is left open when several do), otherwise
\* Err(index) with the place the item would be inserted at; acc[i] of the
\* program is acc[i + 1] here.
binary_search(acc, item) ==
    LET holding == { i \in 0..(Len(acc) - 1) : acc[i + 1] = item }
    IN  IF holding # {}
        THEN { [ok |-> TRUE, index |-> i] : i \in holding }
        ELSE { [ok |-> FALSE,
                index |-> Cardinality({ i \in 0..(Len(acc) - 1) : acc[i + 1] < item })] }

\* The same without the rotation: the item overwrites acc[insert_at_index].
insert_without_rotation(acc, insert_at_index, item) ==
    [acc EXCEPT ![insert_at_index + 1] = item]

\* acc[..insert_at_index + 1].rotate_left(1); acc[insert_at_index] = item
insert(acc, insert_at_index, item) ==
    LET rotated == rotate_left(SubSeq(acc, 1, insert_at_index + 1), 1)
                       \o SubSeq(acc, insert_at_index + 2, Len(acc))
    IN  [rotated EXCEPT ![insert_at_index + 1] = item]

\* The closure folded over the items, for one outcome of the search
fold_step(acc, item, found) ==
    LET maybe_insert_at_index ==
            IF found.ok
            THEN IF acc[1] = item THEN {} ELSE {found.index}
            ELSE IF found.index = 0 THEN {} ELSE {found.index - 1}
    IN  IF maybe_insert_at_index = {} THEN acc
        ELSE insert(acc, Max(maybe_insert_at_index), item)

\* self.fold([Default::default(); K], ..) before the first item
k_highest(K, items) ==
    [K |-> K, items |-> items, taken |-> 0, acc |-> [i \in 1..K |-> Default]]

InitHighest ==
    /\ NoContainer
    /\ aborted = FALSE
    /\ marker = NoMarker
    /\ gaggle = NoGaggle
    /\ \E K \in 1..MaxK, n \in 0..MaxItems :
          \E items \in [1..n -> (0 - 1)..MaxItem] : highest = k_highest(K, items)

\* The fold takes the next item.
FoldItem ==
    /\ highest.taken < Len(highest.items)
    /\ \E found \in binary_search(highest.acc, highest.items[highest.taken + 1]) :
          highest' = [highest EXCEPT
                         !.acc = fold_step(@, highest.items[highest.taken + 1], found),
                         !.taken = @ + 1]
    /\ UNCHANGED <<INTERLEAVING_BITS, loaded, tree, lastOp, aborted, ops, mix,
                   marker, gaggle>>

NextHighest == FoldItem

SpecHighest == InitHighest /\ [][NextHighest]_vars

\* ------------------------------------------------------------ properties
\* The element that follows h when the sequence is read as a circle.
CircularSuccessor(s, h) == s[(IndexOf(s, h) % Len(s)) + 1]

Elements(s) == { s[i] : i \in 1..Len(s) }

SameCircularOrder(a, b) ==
    /\ Len(a) = Len(b)
    /\ Elements(a) = Elements(b)
    /\ \A h \in Elements(a) : CircularSuccessor(a, h) = CircularSuccessor(b, h)

Without(s, h) == SelectSeq(s, LAMBDA x : x # h)

\* The reference rule of a move: take h out, start at its former circular
\* successor, count offset places around the others (wrapping, backwards for a
\* negative offset) and put h back right before the element reached.
ReferenceMove(s, h, offset) ==
    LET n == Len(s)
        rest == Without(s, h)
        start == IF IndexOf(s, h) = n THEN 1 ELSE IndexOf(s, h)
        reached == ((start - 1 + offset) % (n - 1)) + 1
    IN  SubSeq(rest, 1, reached - 1) \o <<h>> \o SubSeq(rest, reached, n - 1)

Occurrences(s, v) == Cardinality({ i \in 1..Len(s) : s[i] = v })

SameMultiset(a, b) ==
    \A v \in Elements(a) \cup Elements(b) : Occurrences(a, v) = Occurrences(b, v)

MoveDone == lastOp.op = "move_by_wrapping" /\ lastOp.result = "done"

\* C1: a move that runs into no exhaustion of the key space (neither the
\* reindexing abort nor a tail key beyond the key width) on a container of at
\* least two elements leaves the elements in the circular order of the
\* reference rule.
C1_MoveFollowsReferenceRule ==
    (MoveDone /\ ~lastOp.wrapped /\ Len(InOrder(lastOp.before)) >= 2)
        => SameCircularOrder(InOrder(tree),
                             ReferenceMove(InOrder(lastOp.before), lastOp.node, lastOp.by))

\* A backward move that wraps around the front and lands between two elements.
C1_Witness ==
    /\ MoveDone /\ ~lastOp.wrapped /\ ops = 2
    /\ Len(InOrder(lastOp.before)) = 3
    /\ lastOp.by = 0 - 3
    /\ lastOp.pred # NIL
    /\ IndexOf(InOrder(lastOp.before), lastOp.node) = 1
    /\ InOrder(tree) # InOrder(lastOp.before)

\* C2: after any sequence of completed moves on a container built from n >= 2
\* elements the total weight is n and the payloads are the loaded ones.
C2_MovesKeepPopulation ==
    (lastOp.moves_only /\ ~aborted /\ Len(loaded) >= 2)
        => /\ total_weight(tree) = Len(loaded)
           /\ SameMultiset(ordered_values(tree), loaded)

StrictlyIncreasingKeys(t) ==
    \A i \in 1..(Len(InOrder(t)) - 1) : key(t, InOrder(t)[i]) < key(t, InOrder(t)[i + 1])

\* The order the call made last is meant to produce from the order before it.
LogicalOrderKept ==
    LET old == InOrder(lastOp.before)
        new == InOrder(tree)
    IN  CASE lastOp.op = "append" ->
               Len(new) = Len(old) + 1 /\ SubSeq(new, 1, Len(old)) = old
          [] lastOp.op = "prepend" ->
               Len(new) = Len(old) + 1 /\ SubSeq(new, 2, Len(new)) = old
          [] lastOp.op = "move_by_wrapping" /\ Len(old) >= 2 ->
               SameCircularOrder(new, ReferenceMove(old, lastOp.node, lastOp.by))
          [] OTHER -> TRUE

\* C3: in every state reached by completed calls the keys are pairwise
\* distinct, the in-order traversal is the logical sequence order, and no call
\* has handed insert_weighted a key that was present.
C3_OrderInvariant ==
    ~aborted =>
        /\ \A g, h \in Live(tree) : g # h => key(tree, g) # key(tree, h)
        /\ StrictlyIncreasingKeys(tree)
        /\ ~lastOp.dup
        /\ LogicalOrderKept

\* The element at 0-based index i of the in-order sequence
ElementAt(t, i) == InOrder(t)[i + 1]

\* 0-based in-order position of a node
PositionOf(t, n) == IndexOf(InOrder(t), n) - 1

\* C4: traverse_by_wrapping(node, by) returns the node at position
\* (p + by) mod n, p being the position of node and n the number of elements.
C4_TraverseReachesPosition ==
    (lastOp.op = "traverse_by_wrapping" /\ Len(InOrder(tree)) >= 1)
        => lastOp.ret = ElementAt(tree, (PositionOf(tree, lastOp.node) + lastOp.by)
                                        % Len(InOrder(tree)))

\* A backward traversal of more than a full turn that starts below the root.
C4_Witness ==
    /\ lastOp.op = "traverse_by_wrapping"
    /\ Len(InOrder(tree)) = 6
    /\ lastOp.by = 0 - 8
    /\ parent(tree, lastOp.node) # NIL
    /\ lastOp.ret # lastOp.node

\* C5: on a non-empty container node_at_position returns None exactly for
\* the positions >= total_weight() and the element at the position otherwise.
C5_NodeAtPosition ==
    (lastOp.op = "node_at_position" /\ Len(InOrder(tree)) >= 1)
        => /\ (lastOp.ret = NIL) <=> (lastOp.by >= total_weight(tree))
           /\ lastOp.by < total_weight(tree) => lastOp.ret = ElementAt(tree, lastOp.by)

C5_Witness ==
    /\ lastOp.op = "node_at_position"
    /\ Len(InOrder(tree)) = 5
    /\ lastOp.by = 3
    /\ lastOp.ret = ElementAt(tree, 3)

\* How many full turns are added to a rank
MaxTurns == 2

\* C6: on a non-empty container node_at_position_wrapping(rank) is the
\* element at index rank mod total_weight(), and so is
\* node_at_position_wrapping(rank + k * total_weight()) for every k >= 0.
C6_PositionWraps ==
    (lastOp.op = "node_at_position_wrapping" /\ Len(InOrder(tree)) >= 1)
        => /\ lastOp.ret = ElementAt(tree, lastOp.by % total_weight(tree))
           /\ \A k \in 0..MaxTurns :
                 node_at_position_wrapping(tree, lastOp.by + k * total_weight(tree))
                     = lastOp.ret

C6_Witness ==
    /\ lastOp.op = "node_at_position_wrapping"
    /\ Len(InOrder(tree)) = 4
    /\ lastOp.by = 10
    /\ lastOp.ret = ElementAt(tree, 2)

\* A move by 0 or by a multiple of total_weight() - 1
NowhereMove ==
    /\ MoveDone
    /\ Len(InOrder(lastOp.before)) >= 2
    /\ lastOp.by % (Len(InOrder(lastOp.before)) - 1) = 0

\* C7 as stated: such a move leaves ordered_values as it was, whatever the
\* position of the element.
C7_NowhereMoveKeepsSequence ==
    NowhereMove => ordered_values(tree) = ordered_values(lastOp.before)

\* C7 as amended: it does so for an element that is neither the first nor
\* the last of the sequence.
C7_NowhereMoveKeepsSequenceInside ==
    (/\ NowhereMove
     /\ first(lastOp.before) # lastOp.node
     /\ last(lastOp.before) # lastOp.node)
        => /\ ordered_values(tree) = ordered_values(lastOp.before)
           /\ InOrder(tree) = InOrder(lastOp.before)

C7_Witness ==
    /\ NowhereMove
    /\ Len(InOrder(lastOp.before)) = 3
    /\ lastOp.by = 0 - 2
    /\ IndexOf(InOrder(lastOp.before), lastOp.node) = 2
    /\ InOrder(tree) = InOrder(lastOp.before)

\* The element 7 of the unit tests' container is moved by -8.
Seven == 8

SevenMovedByMinusEight ==
    /\ MoveDone
    /\ lastOp.node = Seven /\ lastOp.by = 0 - 8
    /\ ordered_values(lastOp.before) = <<0, 1, 2, 3, 4, 5, 6, 7, 8, 9>>

\* C8 as stated: the element wraps to the tail.
C8_SevenWrapsToTail ==
    SevenMovedByMinusEight => ordered_values(tree) = <<0, 1, 2, 3, 4, 5, 6, 8, 9, 7>>

\* C8 as amended: the element ends up between 8 and 9.
C8_SevenLandsBeforeNine ==
    SevenMovedByMinusEight => ordered_values(tree) = <<0, 1, 2, 3, 4, 5, 6, 8, 7, 9>>

C8_Witness ==
    /\ SevenMovedByMinusEight
    /\ ordered_values(tree) = <<0, 1, 2, 3, 4, 5, 6, 8, 7, 9>>

C10_MidKeyBetween ==
    (MoveDone /\ lastOp.pred # NIL)
        => LET predecessor_key == key(lastOp.before, lastOp.pred)
               destination_key == key(lastOp.before, lastOp.dest)
           IN  /\ lastOp.new_key
                    = predecessor_key + ((destination_key - predecessor_key) \div 2)
               /\ key(tree, lastOp.node) = lastOp.new_key
               /\ predecessor_key < lastOp.new_key
               /\ lastOp.new_key < destination_key

\* The new key takes the last free place between the two neighbours.
C10_Witness ==
    /\ MoveDone /\ lastOp.pred # NIL
    /\ key(lastOp.before, lastOp.dest) - key(lastOp.before, lastOp.pred) = 2
    /\ lastOp.new_key = key(lastOp.before, lastOp.pred) + 1
    /\ lastOp.pred # predecessor(lastOp.before, lastOp.node)

\* A call of move_by_wrapping with a handle of the container.
MoveCalled == lastOp.op = "move_by_wrapping" /\ lastOp.result # "expect"

\* The elements the moved one leaves behind, in their order.
Remaining == Without(InOrder(lastOp.before), lastOp.node)

\* The destination of the move has a predecessor among the remaining
\* elements and the key of that predecessor is destination_key - 1.
NoRoomBeforeDestination ==
    /\ lastOp.dest # NIL
    /\ IndexOf(Remaining, lastOp.dest) > 1
    /\ key(lastOp.before, lastOp.dest)
         = key(lastOp.before, Remaining[IndexOf(Remaining, lastOp.dest) - 1]) + 1

\* C11: move_by_wrapping aborts with "Ran out of interleaving bits. Needs
\* reindexing." exactly when the destination has a predecessor whose key is
\* destination_key - 1; the abort comes before any insertion, so the
\* container is left holding the remaining elements only.
C11_ReindexExactlyWhenNoRoom ==
    MoveCalled =>
        /\ (lastOp.result = "reindex") <=> NoRoomBeforeDestination
        /\ lastOp.result = "reindex" =>
              /\ aborted
              /\ InOrder(tree) = Remaining
              /\ \A h \in Live(tree) : key(tree, h) = key(lastOp.before, h)

\* The second move asks for a key between two neighbours that the first move
\* made adjacent.
C11_Witness ==
    /\ MoveCalled /\ lastOp.result = "reindex" /\ ops = 2
    /\ Len(InOrder(lastOp.before)) = 3
    /\ Len(InOrder(tree)) = 2

\* C12 as stated: a move whose destination is the first of the remaining
\* elements puts the element at the tail, under the largest remaining key
\* plus 2^INTERLEAVING_BITS, where it is the last element.
C12_FrontLandsAtTail ==
    (MoveCalled /\ lastOp.dest # NIL /\ IndexOf(Remaining, lastOp.dest) = 1)
        => /\ lastOp.result = "done"
           /\ lastOp.node \in Live(tree)
           /\ key(tree, lastOp.node)
                = key(lastOp.before, Remaining[Len(Remaining)]) + Pow2(INTERLEAVING_BITS)
           /\ last(tree) = lastOp.node
           /\ ordered_values(tree)[Len(ordered_values(tree))]
                = lastOp.before.nodes[lastOp.node].value

\* C13: right after from_iter, on a sequence short enough for every key to
\* fit the key width, the keys increase in sequence order, neighbours are
\* exactly 2^INTERLEAVING_BITS apart, and ordered_values is the sequence.
C13_InitialKeysEvenlySpaced ==
    ops = 0 =>
        /\ Len(InOrder(tree)) = Len(loaded)
        /\ \A i \in 1..Len(loaded) : tree.nodes[InOrder(tree)[i]].value = loaded[i]
        /\ \A i \in 1..(Len(loaded) - 1) :
              key(tree, InOrder(tree)[i + 1])
                = key(tree, InOrder(tree)[i]) + Pow2(INTERLEAVING_BITS)
        /\ StrictlyIncreasingKeys(tree)
        /\ ordered_values(tree) = loaded

\* The longest sequence, under the widest gap.
C13_Witness ==
    /\ ops = 0
    /\ Len(loaded) = MaxN
    /\ INTERLEAVING_BITS = MaxBits
    /\ ordered_values(tree) = loaded
    /\ key(tree, last(tree)) - key(tree, first(tree)) = (MaxN - 1) * Pow2(MaxBits)

\* The element a completed append or prepend has added.
Added == CHOOSE h \in Live(tree) : h \notin Live(lastOp.before)

\* C14 as stated: append on a non-empty container inserts the value under
\* the largest key plus 2^INTERLEAVING_BITS; the value is the last of
\* ordered_values, the elements present before keep their order and
\* total_weight() grows by one.
C14_AppendAddsGap ==
    (lastOp.op = "append" /\ Len(InOrder(lastOp.before)) >= 1)
        => /\ lastOp.result = "done"
           /\ Live(tree) # Live(lastOp.before)
           /\ key(tree, Added)
                = key(lastOp.before, last(lastOp.before)) + Pow2(INTERLEAVING_BITS)
           /\ ordered_values(tree) = Append(ordered_values(lastOp.before), lastOp.by)
           /\ InOrder(tree) = Append(InOrder(lastOp.before), Added)
           /\ total_weight(tree) = total_weight(lastOp.before) + 1

PrependDone ==
    lastOp.op = "prepend" /\ lastOp.result = "done" /\ Live(tree) # Live(lastOp.before)

\* C15 as stated: the key prepend gives to the new first element is
\* 2^INTERLEAVING_BITS below the smallest key.
C15_PrependSubtractsGap ==
    PrependDone
        => key(tree, Added) = key(lastOp.before, first(lastOp.before))
                                - Pow2(INTERLEAVING_BITS)

\* C15 as amended: the key is half the smallest key, rounded down, which is
\* below the smallest key.
C15_PrependHalvesMinimum ==
    (lastOp.op = "prepend" /\ lastOp.result = "done")
        => /\ Live(tree) # Live(lastOp.before)
           /\ key(tree, Added) = key(lastOp.before, first(lastOp.before)) \div 2
           /\ key(tree, Added) < key(lastOp.before, first(lastOp.before))
           /\ first(tree) = Added

\* Two prepends in a row: the second halves the key the first one made.
C15_Witness ==
    /\ PrependDone /\ ops = 2
    /\ INTERLEAVING_BITS = MaxBits
    /\ key(lastOp.before, first(lastOp.before)) = Pow2(MaxBits - 1)
    /\ key(tree, Added) = Pow2(MaxBits - 2)

PrependCalled == lastOp.op = "prepend"

\* What a successful prepend leaves behind.
PrependedInFront ==
    /\ lastOp.result = "done" /\ ~aborted
    /\ Live(tree) # Live(lastOp.before)
    /\ ordered_values(tree) = <<lastOp.by>> \o ordered_values(lastOp.before)
    /\ InOrder(tree) = <<Added>> \o InOrder(lastOp.before)
    /\ total_weight(tree) = Len(InOrder(lastOp.before)) + 1

\* C16: on a container that has a smallest key, prepend fails exactly when
\* that key is 0 and then leaves the container as it was; otherwise the value
\* becomes the first element, the others keep their order and total_weight()
\* grows by one.  (A container without elements has no smallest key: prepend
\* aborts on it when it asks for the root.)
C16_PrependOnNonEmpty ==
    PrependCalled =>
        IF Len(InOrder(lastOp.before)) = 0
        THEN lastOp.result = "unwrap" /\ aborted /\ tree = lastOp.before
        ELSE LET at_zero == key(lastOp.before, first(lastOp.before)) = 0
             IN  /\ (lastOp.result # "done") <=> at_zero
                 /\ at_zero => (lastOp.result = "reindex" /\ aborted
                                /\ tree = lastOp.before)
                 /\ ~at_zero => PrependedInFront

\* prepend is refused on a container whose smallest key is 0.
C16_Witness ==
    /\ PrependCalled /\ lastOp.result = "reindex"
    /\ Len(InOrder(lastOp.before)) >= 2
    /\ key(lastOp.before, first(lastOp.before)) = 0
    /\ tree = lastOp.before

\* Index<NodeIndex> and key(node).expect("Key must exist"): what a use of the
\* handle h finds in the container t.
Resolves(t, h) ==
    /\ h \in Live(t)
    /\ \A o \in move_by_wrapping(t, h, 0) : o.result # "expect"

InsertionOrder == [i \in 1..Len(loaded) |-> i]

\* C18 as stated: after completed moves node_indexes still yields the
\* handles in the order of insertion.
C18_NodeIndexesInInsertionOrder ==
    (lastOp.moves_only /\ ~aborted /\ ~lastOp.dup)
        => node_indexes(tree) = InsertionOrder

\* C18 as amended: node_indexes yields every handle once, by increasing key,
\* which is the current logical order; it is the order of insertion when no
\* call has changed the container since from_iter.
C18_NodeIndexesInKeyOrder ==
    ~aborted =>
        /\ Len(node_indexes(tree)) = Cardinality(Live(tree))
        /\ Elements(node_indexes(tree)) = Live(tree)
        /\ \A i \in 1..(Len(node_indexes(tree)) - 1) :
              key(tree, node_indexes(tree)[i]) < key(tree, node_indexes(tree)[i + 1])
        /\ \A i \in 1..Len(node_indexes(tree)) :
              tree.nodes[node_indexes(tree)[i]].value = ordered_values(tree)[i]
        /\ ops = 0 => node_indexes(tree) = InsertionOrder

\* After a move node_indexes follows the new order, not the order of
\* insertion.
C18_Witness ==
    /\ MoveDone /\ ~lastOp.dup /\ ~lastOp.wrapped
    /\ Len(loaded) = 3
    /\ node_indexes(lastOp.before) = InsertionOrder
    /\ node_indexes(tree) = <<1, 3, 2>>

\* The weight a node stores for a child, 0 for a missing child.
WeightOf(t, h) == IF h = NIL THEN 0 ELSE subweight(t, h)

WeightInvariant(t) ==
    /\ \A h \in Live(t) :
          subweight(t, h) = 1 + WeightOf(t, child(t, h, 0)) + WeightOf(t, child(t, h, 1))
    /\ root(t) # NIL => subweight(t, root(t)) = Cardinality(Live(t))
    /\ root(t) = NIL => Live(t) = {}

PositionQuery == lastOp.op \in {"node_at_position", "node_at_position_wrapping"}

\* C20: on a container built from an empty sequence node_at_position and
\* node_at_position_wrapping abort for every rank: neither a handle nor None
\* is returned.
C20_EmptyPositionQueryAborts ==
    (PositionQuery /\ Len(loaded) = 0)
        => /\ lastOp.ret = PANIC
           /\ lastOp.result = "unwrap"
           /\ aborted

C20_Witness ==
    /\ lastOp.op = "node_at_position" /\ Len(loaded) = 0
    /\ tree = EmptyTree
    /\ lastOp.by = MaxPos
    /\ lastOp.ret = PANIC /\ aborted

\* The element reached from start after steps places around the circle s
\* (backwards for negative steps).
WalkedFrom(s, start, steps) == s[((IndexOf(s, start) - 1 + steps) % Len(s)) + 1]

MoveWalked == MoveCalled /\ lastOp.dest # NIL

\* C21 as stated: the walk from the recorded successor is as long as the
\* offset reduced modulo the weight before the removal of the node.
C21_WalkReducedByWeightBefore ==
    MoveWalked =>
        lastOp.dest = WalkedFrom(Remaining, lastOp.succ,
                                 RemTrunc(lastOp.by, Len(InOrder(lastOp.before))))

\* C21 as amended: it is as long as the offset reduced modulo the weight
\* after the removal, the number of the other elements.
C21_WalkReducedByWeightAfter ==
    MoveWalked =>
        /\ lastOp.succ = CircularSuccessor(InOrder(lastOp.before), lastOp.node)
        /\ lastOp.dest = WalkedFrom(Remaining, lastOp.succ,
                                    RemTrunc(lastOp.by, Len(InOrder(lastOp.before)) - 1))

\* An offset equal to the weight before the removal walks one place.
C21_Witness ==
    /\ MoveWalked /\ lastOp.result = "done"
    /\ Len(InOrder(lastOp.before)) = 3
    /\ lastOp.by = 3
    /\ lastOp.dest # lastOp.succ

\* Every handle of original_nodes designates the element it was taken for:
\* the i-th handle holds the i-th number of the input.
SnapshotDesignates(t) ==
    \A j \in 1..Len(mix.original_nodes) :
        /\ mix.original_nodes[j] \in Live(t)
        /\ t.nodes[mix.original_nodes[j]].value = loaded[j]

\* C22: the mixing makes passes * n moves at most (one pass in part_one, ten
\* in part_two); the move number k of a pass is made on the k-th handle of
\* the snapshot, by the payload of the k-th element of the input, and after
\* every completed move each handle of the snapshot still designates its
\* element.
C22_MixMovesEachOncePerPass ==
    [][(ops' = ops + 1) =>
          LET n == Len(mix.original_nodes)
              k == (ops % n) + 1
          IN  /\ mix.passes \in {PartOnePasses, PartTwoPasses}
              /\ ops \div n < mix.passes
              /\ mix.original_nodes = [j \in 1..n |-> j]
              /\ lastOp'.op = "move_by_wrapping"
              /\ lastOp'.node = mix.original_nodes[k]
              /\ lastOp'.result # "expect"
              /\ lastOp'.by = loaded[k]
              /\ ~aborted' => SnapshotDesignates(tree')]_vars

\* Every node that has a parent is the left or the right child of it.
ListedByParent(t) ==
    \A h \in Live(t) :
        parent(t, h) # NIL =>
            (child(t, parent(t, h), 0) = h \/ child(t, parent(t, h), 1) = h)

\* C23: in every state reached by from_iter and any calls of
\* move_by_wrapping, append and prepend, every node that has a parent is
\* listed by it as a child, and no traversal, from any node by any offset,
\* ends in "Child element is not a child of the parent".
C23_NavigationConsistent ==
    /\ ListedByParent(tree)
    /\ \A h \in Live(tree), by \in Offsets : traverse_by_wrapping(tree, h, by) # PANIC

\* A traversal climbs from a right child after two calls have changed the
\* container.
C23_Witness ==
    /\ ops = 2 /\ ~aborted
    /\ Cardinality(Live(tree)) = MaxN + 2
    /\ \E h \in Live(tree) :
          /\ parent(tree, h) # NIL
          /\ child(tree, parent(tree, h), 1) = h
          /\ child(tree, h, 0) = NIL
          /\ traverse_by_wrapping(tree, h, 0 - 1) = parent(tree, h)

\* C24: on every non-empty tree, from every start node and for every signed
\* offset, the calls between traverse_by_wrapping, traverse_forward_wrapping,
\* traverse_backward_wrapping and traverse_up_wrapping come to an end:
\* traverse_by_wrapping is called with an offset that reduces to 0 and
\* returns.
C24_TraversalTerminates ==
    <>(lastOp.result = "done" /\ lastOp.op = "traverse_by_wrapping"
       /\ RemTrunc(lastOp.by, subweight(tree, root(tree))) = 0
       /\ lastOp.ret = lastOp.node)

\* A traversal that has gone around at the root has returned.
C24_Witness ==
    /\ lastOp.result = "done" /\ lastOp.wrapped
    /\ Len(InOrder(tree)) = MaxQueryN
    /\ ops >= 6

\* C25 as stated: no key that is assigned leaves the key width: the keys of
\* from_iter are (index + 1) * 2^INTERLEAVING_BITS with no bit lost, and the
\* sum largest key + 2^INTERLEAVING_BITS of append, and of a move that lands
\* at the front, always fits.
C25_KeysStayInWidth ==
    /\ ops = 0 =>
          \A i \in 1..Len(InOrder(tree)) :
              key(tree, InOrder(tree)[i]) = i * Pow2(INTERLEAVING_BITS)
    /\ lastOp.op \in {"append", "move_by_wrapping"} =>
          /\ lastOp.result # "overflow"
          /\ ~lastOp.wrapped
          /\ (lastOp.result = "done" /\ lastOp.pred = NIL) =>
                lastOp.new_key = key(lastOp.before,
                                     IF lastOp.op = "append" THEN last(lastOp.before)
                                     ELSE Remaining[Len(Remaining)])
                                 + Pow2(INTERLEAVING_BITS)

\* A move that has failed for want of key space: no key is left between the
\* destination and its predecessor, or the tail key does not fit.
MoveOutOfKeys == MoveCalled /\ lastOp.result \in {"reindex", "overflow"}

\* C26: when move_by_wrapping aborts because the key space is used up, the
\* element has been removed and is not put back: the container holds the
\* other n - 1 elements.
C26_FailedMoveLosesElement ==
    MoveOutOfKeys =>
        /\ aborted
        /\ lastOp.node \notin Live(tree)
        /\ Live(tree) = Live(lastOp.before) \ {lastOp.node}
        /\ Cardinality(Live(tree)) = Cardinality(Live(lastOp.before)) - 1
        /\ ordered_values(tree)
             = [i \in 1..Len(Remaining) |-> lastOp.before.nodes[Remaining[i]].value]

C26_Witness ==
    /\ MoveOutOfKeys /\ lastOp.result = "reindex"
    /\ lastOp.by = 0 - 1
    /\ Cardinality(Live(lastOp.before)) = Len(loaded)
    /\ total_weight(tree) = Len(loaded) - 1
    /\ lastOp.node \notin Live(tree)

\* C27: on a container of one element move_by_wrapping aborts for every
\* offset: the element is removed, the tree is empty and the traversal
\* fails.
C27_SingleElementMoveAborts ==
    (lastOp.op = "move_by_wrapping" /\ Cardinality(Live(lastOp.before)) = 1)
        => /\ lastOp.result = "unwrap"
           /\ aborted
           /\ Live(tree) = {}
           /\ root(tree) = NIL

C27_Witness ==
    /\ lastOp.op = "move_by_wrapping" /\ Len(loaded) = 1 /\ ops = 1
    /\ lastOp.by = MaxBy
    /\ lastOp.result = "unwrap" /\ aborted
    /\ tree.order = <<>>

\* The bytes input[e - size + 1 .. e] (counted from 1) are pairwise distinct.
DistinctWindow(input, size, e) ==
    \A i, j \in (e - size + 1)..e : i # j => input[i] # input[j]

MarkerEnds(input, size) ==
    { e \in size..Len(input) : DistinctWindow(input, size, e) }

\* C28: for every input of MARKER_SIZE bytes or more that holds a window of
\* MARKER_SIZE pairwise distinct bytes, next returns the 1-based index of the
\* last byte of the first such window, also when the window begins with the
\* first byte of the input.
C28_NextReturnsFirstMarker ==
    (marker.result \in {"Some", "assert"}
        /\ MarkerEnds(marker.input, marker.MARKER_SIZE) # {})
    => /\ marker.result = "Some"
       /\ \A e \in MarkerEnds(marker.input, marker.MARKER_SIZE) : marker.ret <= e
       /\ marker.ret \in MarkerEnds(marker.input, marker.MARKER_SIZE)

\* C29: every call of simulate_round on a gaggle whose throw targets are
\* monkey indices ends (no panic, the assert_eq included) with as many items
\* over all monkeys as it began with, and after the rounds made the
\* inspection counts add up to the number of items inspected.
C29_RoundConservesItems ==
    /\ gaggle.result \notin {"borrow", "assert_eq"}
    /\ (gaggle.result = "ready" /\ gaggle.rounds > 0)
       => /\ TotalItems(gaggle.monkeys) = gaggle.items_before
          /\ InspectionCount(gaggle.monkeys, Len(gaggle.monkeys)) = gaggle.inspected

\* The sequence s in ascending order
RECURSIVE AscendingOrder(_)
AscendingOrder(s) ==
    IF s = <<>> THEN <<>>
    ELSE LET least == CHOOSE i \in 1..Len(s) : \A j \in 1..Len(s) : s[i] <= s[j]
         IN  <<s[least]>> \o AscendingOrder(SubSeq(s, 1, least - 1)
                                               \o SubSeq(s, least + 1, Len(s)))

\* The K largest items in ascending order, defaults in front when the items
\* are fewer than K
KLargest(items, K) ==
    LET n == Len(items)
    IN  IF n >= K THEN SubSeq(AscendingOrder(items), n - K + 1, n)
        ELSE [i \in 1..(K - n) |-> Default] \o AscendingOrder(items)

FoldDone == highest.K > 0 /\ highest.taken = Len(highest.items)

NoneBelowDefault == \A i \in 1..Len(highest.items) : highest.items[i] >= Default

\* C30: for every finite sequence of items none of which is below the
\* default value, k_highest::<K> returns the K largest items, each as often
\* as it occurs, in ascending order, with default values in front when fewer
\* than K items were given.
C30_KHighestReturnsKLargest ==
    (FoldDone /\ NoneBelowDefault) => highest.acc = KLargest(highest.items, highest.K)

\* Three items for K = 2, the largest of them twice.
C30_Witness ==
    /\ FoldDone /\ NoneBelowDefault
    /\ highest.K = 2 /\ Len(highest.items) = 3
    /\ highest.acc[1] = highest.acc[2] /\ highest.acc[1] > Default
    /\ \E i \in 1..3 : highest.items[i] < highest.acc[1]

====
